---------------------------- MODULE Spec2Model ----------------------------
(***************************************************************************)
(* A model of notion4ever's structuring stage (src/notion4ever/            *)
(* structuring.py): slugs, url assignment, family lines and asset          *)
(* localisation.                                                           *)
(*                                                                         *)
(* Python strings are sequences of one-character strings; None is a        *)
(* one-element sequence holding a token that is no character.  Paths are   *)
(* kept as the strings the code keeps and are taken apart the way pathlib  *)
(* takes them apart.                                                       *)
(***************************************************************************)
EXTENDS Integers, Sequences, FiniteSets, TLC

VARIABLES
    sl_pc,        \* slug run: "call" before clean_url_string, "done" after
    sl_page_id,   \* slug run: the page id generate_urls is at
    sl_title,     \* slug run: page.get("title")
    sl_slug,      \* slug run: the slug returned
    root_page_id, \* structured_notion["root_page_id"]
    pages,        \* structured_notion["pages"]: page id -> record
    urls,         \* structured_notion["urls"]
    stack,        \* generate_urls: the calls still to run, next one first
    fl_idx,       \* parse_family_lines: position in pages.items()
    fl_cur,       \* parse_family_line: the page_id of the innermost call
    fl_line,      \* parse_family_line: the family_line list being built
    fl_depth,     \* parse_family_line: number of nested calls
    fl_status,    \* "idle", "walking", "done" or "RecursionError"
    dl_page,      \* download_and_replace_paths: position in pages.items()
    dl_file,      \* download_and_replace_paths: i_file
    dl_status,    \* "idle", "running", "done", "off" or the exception that escaped
    disk,         \* the paths that exist under output_dir, relative to it
    fetched,      \* every urlretrieve call made, in order
    pages0,       \* the pages as download_and_replace_paths found them
    so_status,    \* the sorting functions: "idle", "sort_db", "by_year", "done" or the exception
    sorted_id_by_year, \* structured_notion["sorted_id_by_year"], in the order of its keys
    raw_notion,   \* the records of raw_notion, in the order of the dict
    notion_pages, \* parse_headers: the dict notion_pages
    np_keys,      \* parse_headers: the keys of notion_pages, in the order of the dict
    ph_idx,       \* parse_headers: position in raw_notion.items()
    ph_status,    \* "idle", "parsing", "parsed", "done" or "KeyError"
    gp_idx,       \* generate_pages: position in pages.keys()
    gp_status,    \* "idle", "running", "done" or "Exception"
    gp_calls,     \* generate_pages: the calls of generate_page made, in order
    gp_writes,    \* generate_page: the files written below output_dir, in order
    pp_idx,       \* parse_db_entry_properties: position in pages.items()
    pp_status,    \* "idle", "running" or "done"
    api_results,  \* the result pages the API returns for the children of the block
    block,        \* block_parser: the block
    start_cursor, \* block_parser: start_cursor
    blocks,       \* block_parser: the last answer of notion.blocks.children.list
    bp_turns,     \* block_parser: the turns of the while loop made
    bp_status     \* "idle", "called", "loop", "children" or "done"

slugVars == <<sl_pc, sl_page_id, sl_title, sl_slug>>
siteVars == <<root_page_id, pages, urls, stack>>
familyVars == <<fl_idx, fl_cur, fl_line, fl_depth, fl_status>>
assetVars == <<dl_page, dl_file, dl_status, disk, fetched, pages0>>
sortVars == <<so_status, sorted_id_by_year>>
headerVars == <<raw_notion, notion_pages, np_keys, ph_idx, ph_status>>
renderVars == <<gp_idx, gp_status, gp_calls, gp_writes>>
propVars == <<pp_idx, pp_status>>
crawlVars == <<api_results, block, start_cursor, blocks, bp_turns, bp_status>>
otherVars == <<sortVars, headerVars, renderVars, propVars, crawlVars>>
vars == <<slugVars, siteVars, familyVars, assetVars, otherVars>>

-----------------------------------------------------------------------------
(* Bounds of the model.                                                    *)

MaxTitleLen == 3
NumPages == 4
RecursionLimit == 7

-----------------------------------------------------------------------------
(* Strings.                                                                *)

None == <<"<None>">>
TAB == "\t"
SOH == "<x01>"

\* str.strip() takes off whitespace; of Python's whitespace the alphabet holds these
Whitespace == {" ", TAB}
\* the class \x00-\x1F of the regular expression; the alphabet holds these of it
ControlChars == {TAB, SOH}

Range(s) == {s[i] : i \in 1..Len(s)}

\* s[i:] and s[:i] of Python, i counted from 0
From(s, i) == SubSeq(s, i + 1, Len(s))
Upto(s, i) == IF i >= Len(s) THEN s ELSE SubSeq(s, 1, i)

StartsAt(s, old, i) ==
    /\ i + Len(old) - 1 <= Len(s)
    /\ SubSeq(s, i, i + Len(old) - 1) = old

Contains(s, old) == \E i \in 1..(Len(s) + 1) : StartsAt(s, old, i)

RECURSIVE ReplaceFrom(_, _, _, _)
ReplaceFrom(s, old, new, i) ==
    IF i > Len(s) THEN <<>>
    ELSE IF StartsAt(s, old, i) THEN new \o ReplaceFrom(s, old, new, i + Len(old))
    ELSE <<s[i]>> \o ReplaceFrom(s, old, new, i + 1)

RECURSIVE Interleave(_, _)
Interleave(s, new) ==
    IF s = <<>> THEN new ELSE new \o <<s[1]>> \o Interleave(Tail(s), new)

\* str.replace(old, new): every non-overlapping occurrence, left to right
Replace(s, old, new) ==
    IF old = <<>> THEN Interleave(s, new) ELSE ReplaceFrom(s, old, new, 1)

\* re.sub of a character class by one string, and str.replace of one character
SubChars(s, class, new) == [i \in 1..Len(s) |-> IF s[i] \in class THEN new ELSE s[i]]

RECURSIVE LStrip(_, _)
LStrip(s, chars) ==
    IF s # <<>> /\ s[1] \in chars THEN LStrip(Tail(s), chars) ELSE s

RECURSIVE RStrip(_, _)
RStrip(s, chars) ==
    IF s # <<>> /\ s[Len(s)] \in chars THEN RStrip(Upto(s, Len(s) - 1), chars) ELSE s

Strip(s, chars) == RStrip(LStrip(s, chars), chars)

\* str.rfind(c), counted from 0, -1 when absent
RECURSIVE RFind(_, _)
RFind(s, c) ==
    IF s = <<>> THEN -1
    ELSE IF s[Len(s)] = c THEN Len(s) - 1
    ELSE RFind(Upto(s, Len(s) - 1), c)

\* str.find(c), counted from 0, -1 when absent
Find(s, c) ==
    IF c \in Range(s) THEN (CHOOSE i \in 1..Len(s) : s[i] = c /\ \A j \in 1..(i - 1) : s[j] # c) - 1
    ELSE -1

Digit(d) == <<"0", "1", "2", "3", "4", "5", "6", "7", "8", "9">>[d + 1]

\* f"{i}" of a natural number
RECURSIVE IntToStr(_)
IntToStr(i) == IF i < 10 THEN <<Digit(i)>> ELSE IntToStr(i \div 10) \o <<Digit(i % 10)>>

RECURSIVE Join(_, _)
Join(parts, sep) ==
    IF parts = <<>> THEN <<>>
    ELSE IF Len(parts) = 1 THEN parts[1]
    ELSE parts[1] \o sep \o Join(Tail(parts), sep)

\* str.split(sep) for a one-character sep
RECURSIVE Split(_, _)
Split(s, sep) ==
    LET i == Find(s, sep)
    IN  IF i < 0 THEN <<s>> ELSE <<Upto(s, i)>> \o Split(From(s, i + 1), sep)

SelectParts(parts) == SelectSeq(parts, LAMBDA p : p # <<>> /\ p # <<".">>)

-----------------------------------------------------------------------------
(* clean_url_string                                                        *)

ReplacedChars == {"$", "\\", ":", " "}
ForbiddenChars == {"<", ">", ":", "\"", "/", "\\", "|", "?", "*"} \cup ControlChars

\* as clean_url_string, without the substitution of the forbidden characters
clean_url_string_unsubstituted(value, fallback) ==
    LET v1 == IF value = None THEN fallback ELSE value
        v2 == Strip(v1, Whitespace)
        v3 == IF v2 = <<>> THEN fallback ELSE v2
        v4 == SubChars(v3, ReplacedChars, "_")
        v6 == Strip(v4, {" ", "."})
    IN  IF v6 = <<>> THEN fallback ELSE v6

clean_url_string(value, fallback) ==
    LET v1 == IF value = None THEN fallback ELSE value
        v2 == Strip(v1, Whitespace)
        v3 == IF v2 = <<>> THEN fallback ELSE v2
        v4 == SubChars(v3, ReplacedChars, "_")
        v5 == SubChars(v4, ForbiddenChars, "_")
        v6 == Strip(v5, {" ", "."})
    IN  IF v6 = <<>> THEN fallback ELSE v6

-----------------------------------------------------------------------------
(* pathlib: a Path is the sequence of its parts.                           *)

Path(s) == SelectParts(Split(s, "/"))

as_posix(parts) == IF parts = <<>> THEN <<".">> ELSE Join(parts, <<"/">>)

PathParent(parts) == IF parts = <<>> THEN <<>> ELSE Upto(parts, Len(parts) - 1)

PathName(parts) == IF parts = <<>> THEN <<>> ELSE parts[Len(parts)]

\* PurePath.suffix: from the last dot of the name, unless that dot is first or last
PathSuffix(parts) ==
    LET name == PathName(parts)
        i == RFind(name, ".")
    IN  IF 0 < i /\ i < Len(name) - 1 THEN From(name, i) ELSE <<>>

PathStem(parts) ==
    LET name == PathName(parts)
        i == RFind(name, ".")
    IN  IF 0 < i /\ i < Len(name) - 1 THEN Upto(name, i) ELSE name

\* parts / "name"
PathJoin(parts, s) == parts \o Path(s)

_ensure_posix(parts) == as_posix(parts)

-----------------------------------------------------------------------------
(* Pages.                                                                  *)

NoPage == 0
PageIds == 1..NumPages

\* the page ids as the strings they are; pages 2 and 3 share their first 8 characters
PageIdStr(n) ==
    IF n = 3 THEN <<"0", "0", "0", "0", "0", "0", "0", "2", "-", "b">>
    ELSE <<"0", "0", "0", "0", "0", "0", "0", Digit(n % 10), "-", "a">>

index_html == <<"i", "n", "d", "e", "x", ".", "h", "t", "m", "l">>
dot_html == <<".", "h", "t", "m", "l">>
untitled_ == <<"u", "n", "t", "i", "t", "l", "e", "d", "_">>

\* a page record as parse_headers leaves it (a key the code has not set is None)
NewPage(type, title, par, kids) ==
    [type |-> type, title |-> title, parent |-> par, children |-> kids,
     url |-> None, family_line |-> <<>>, date |-> None,
     files |-> <<>>, cover |-> None, icon |-> None,
     md_content |-> None, properties |-> <<>>, properties_md |-> <<>>, description |-> None]

-----------------------------------------------------------------------------
(* generate_urls                                                           *)

RECURSIVE NextFreeUrl(_, _, _, _, _)
NextFreeUrl(stem, suffix, par, U, i) ==
    LET new_name == stem \o <<"_">> \o IntToStr(i) \o suffix
        new_url == IF as_posix(par) # <<".">> THEN _ensure_posix(PathJoin(par, new_name))
                   ELSE new_name
    IN  IF new_url \notin Range(U) THEN new_url
        ELSE NextFreeUrl(stem, suffix, par, U, i + 1)

\* as _unique_url, taking the first suffixed name without looking it up
unique_url_first_suffix(candidate, U) ==
    IF candidate \notin Range(U) THEN candidate
    ELSE LET p == Path(candidate)
             new_name == PathStem(p) \o <<"_", "2">> \o PathSuffix(p)
         IN  _ensure_posix(PathJoin(PathParent(p), new_name))

\* as _unique_url, numbering from 3
unique_url_from_3(candidate, U) ==
    IF candidate \notin Range(U) THEN candidate
    ELSE LET p == Path(candidate)
         IN  NextFreeUrl(PathStem(p), PathSuffix(p), PathParent(p), U, 3)

_unique_url(candidate, U) ==
    IF candidate \notin Range(U) THEN candidate
    ELSE LET p == Path(candidate)
         IN  NextFreeUrl(PathStem(p), PathSuffix(p), PathParent(p), U, 2)

\* as _is_container_page, without the test for a database
is_container_by_children(page) == page.children # <<>>

_is_container_page(page) ==
    IF page.type = "database" THEN TRUE ELSE page.children # <<>>

UntitledFallback(page_id) == untitled_ \o Upto(PageIdStr(page_id), 8)

\* as CandidateUrl, without the branch for the root
CandidateUrlBySlug(page_id, P, root_id) ==
    LET page == P[page_id]
        slug == clean_url_string(page.title, UntitledFallback(page_id))
        parent_url == IF page.parent # NoPage THEN P[page.parent].url ELSE index_html
        parent_dir == PathParent(Path(parent_url))
    IN  IF _is_container_page(page)
        THEN _ensure_posix(PathJoin(PathJoin(parent_dir, slug), index_html))
        ELSE _ensure_posix(PathJoin(parent_dir, slug \o dot_html))

\* the url generate_urls builds before it is made unique
CandidateUrl(page_id, P, root_id) ==
    IF page_id = root_id THEN index_html
    ELSE LET page == P[page_id]
             parent_id == page.parent
             has_parent == parent_id # NoPage /\ parent_id \in DOMAIN P
             parent_url == IF has_parent THEN P[parent_id].url ELSE index_html
             parent_dir == PathParent(Path(parent_url))
             slug == clean_url_string(page.title, UntitledFallback(page_id))
         IN  IF _is_container_page(page)
             THEN _ensure_posix(PathJoin(PathJoin(parent_dir, slug), index_html))
             ELSE _ensure_posix(PathJoin(parent_dir, slug \o dot_html))

\* one call of generate_urls, up to its loop over the children
generate_urls(page_id, P, U, root_id) ==
    LET url == _unique_url(CandidateUrl(page_id, P, root_id), U)
    IN  [pages |-> [P EXCEPT ![page_id].url = url], urls |-> Append(U, url)]

-----------------------------------------------------------------------------
(* The runs.  Each specification drives one stage; the variables of the    *)
(* other stages stay idle.                                                 *)

SlugIdle == sl_pc = "idle" /\ sl_page_id = NoPage /\ sl_title = None /\ sl_slug = None
FamilyIdle ==
    fl_idx = 0 /\ fl_cur = NoPage /\ fl_line = <<>> /\ fl_depth = 0 /\ fl_status = "idle"
AssetIdle ==
    /\ dl_page = 0 /\ dl_file = 0 /\ dl_status = "idle"
    /\ disk = {} /\ fetched = <<>> /\ pages0 = <<>>
SiteIdle == root_page_id = NoPage /\ pages = <<>> /\ urls = <<>> /\ stack = <<>>
SortIdle == so_status = "idle" /\ sorted_id_by_year = <<>>
HeaderIdle ==
    /\ raw_notion = <<>> /\ notion_pages = <<>> /\ np_keys = <<>>
    /\ ph_idx = 0 /\ ph_status = "idle"
RenderIdle == gp_idx = 0 /\ gp_status = "idle" /\ gp_calls = <<>> /\ gp_writes = <<>>
PropIdle == pp_idx = 0 /\ pp_status = "idle"
CrawlIdle ==
    /\ api_results = <<>> /\ block = <<>> /\ start_cursor = 0 /\ blocks = <<>>
    /\ bp_turns = 0 /\ bp_status = "idle"
OthersIdle == SortIdle /\ HeaderIdle /\ RenderIdle /\ PropIdle /\ CrawlIdle

-----------------------------------------------------------------------------
(* SpecSlug: generate_urls' call of clean_url_string on one title.         *)

TitleAlphabet ==
    {"a", "_", ".", " ", "$", TAB, SOH, "/", "\\", ":", "*", "?", "\"", "<", ">", "|"}

Strings(alphabet, maxlen) == UNION {[1..n -> alphabet] : n \in 0..maxlen}

Titles == {None} \cup Strings(TitleAlphabet, MaxTitleLen)

InitSlug ==
    /\ sl_pc = "call"
    /\ sl_page_id \in PageIds
    /\ sl_title \in Titles
    /\ sl_slug = None
    /\ SiteIdle /\ FamilyIdle /\ AssetIdle /\ OthersIdle

MakeSlug ==
    /\ sl_pc = "call"
    /\ sl_slug' = clean_url_string(sl_title, UntitledFallback(sl_page_id))
    /\ sl_pc' = "done"
    /\ UNCHANGED <<sl_page_id, sl_title, siteVars, familyVars, assetVars, otherVars>>

NextSlug == MakeSlug

SpecSlug == InitSlug /\ [][NextSlug]_vars

-----------------------------------------------------------------------------
(* SpecUrls: generate_urls from the root over a tree of pages.             *)

T_ == <<"T">>
T_2 == <<"T", "_", "2">>
index_ == <<"i", "n", "d", "e", "x">>

TreeTitles == {None, T_, T_2, index_}

SortedSeq(S) ==
    IF S = {} THEN <<>>
    ELSE CHOOSE q \in [1..Cardinality(S) -> S] :
            \A i, j \in 1..Cardinality(S) : i < j => q[i] < q[j]

\* the pages parse_headers builds from a tree: par gives each non-root page its
\* parent, dbs the databases, ttl the titles; children come in the order of the ids
TreePages(ids, par, dbs, ttl) ==
    LET type[n \in ids] ==
            IF n # 1 /\ type[par[n]] = "database" THEN "db_entry"
            ELSE IF n \in dbs THEN "database" ELSE "page"
    IN  [n \in ids |->
            NewPage(type[n], ttl[n], IF n = 1 THEN NoPage ELSE par[n],
                    SortedSeq({m \in ids \ {1} : par[m] = n}))]

Trees(ids) == {par \in [ids \ {1} -> ids] : \A n \in ids \ {1} : par[n] < n}

\* the sets of databases tried: none, or any one page
DatabaseSets(ids) == {{}} \cup {{n} : n \in ids}

InitUrls ==
    /\ root_page_id = 1
    /\ \E par \in Trees(PageIds), dbs \in DatabaseSets(PageIds), ttl \in [PageIds -> TreeTitles] :
          pages = TreePages(PageIds, par, dbs, ttl)
    /\ urls = <<>>
    /\ stack = <<root_page_id>>
    /\ SlugIdle /\ FamilyIdle /\ AssetIdle /\ OthersIdle

\* one call of generate_urls; its loop over the children is the calls it leaves
GenerateUrls ==
    /\ stack # <<>>
    /\ LET page_id == Head(stack)
           r == generate_urls(page_id, pages, urls, root_page_id)
       IN  /\ pages' = r.pages
           /\ urls' = r.urls
           /\ stack' = pages[page_id].children \o Tail(stack)
    /\ UNCHANGED <<root_page_id, slugVars, familyVars, assetVars, otherVars>>

NextUrls == GenerateUrls

SpecUrls == InitUrls /\ [][NextUrls]_vars

-----------------------------------------------------------------------------
(* SpecFamily: parse_family_lines over pages whose parent pointers are any *)
(* pointers at all, cycles included.  The recursion of parse_family_line   *)
(* is the walk of fl_cur; CPython ends it with RecursionError when the     *)
(* calls nest RecursionLimit deep.                                         *)

\* no record names itself as its parent
ParentMaps(ids) == {par \in [ids -> ids \cup {NoPage}] : \A n \in ids : par[n] # n}

\* the pages parse_headers builds from records with these parent pointers
LinkedPages(ids, par) ==
    [n \in ids |-> NewPage("page", T_, par[n], SortedSeq({m \in ids : par[m] = n}))]

InitFamily ==
    /\ root_page_id = 1
    /\ \E par \in ParentMaps(PageIds) : pages = LinkedPages(PageIds, par)
    /\ urls = <<>>
    /\ stack = <<>>
    /\ fl_idx = 1
    /\ fl_cur = NoPage
    /\ fl_line = <<>>
    /\ fl_depth = 0
    /\ fl_status = "next"
    /\ SlugIdle /\ AssetIdle /\ OthersIdle

\* parse_family_lines calls parse_family_line(page_id, [], structured_notion)
StartFamilyLine ==
    /\ fl_status = "next"
    /\ fl_cur' = fl_idx
    /\ fl_line' = <<>>
    /\ fl_depth' = 1
    /\ fl_status' = "walking"
    /\ UNCHANGED <<fl_idx, siteVars, slugVars, assetVars, otherVars>>

\* as WalkToParent, with family_line.append(par_id)
WalkToParentAppending ==
    /\ fl_status = "walking"
    /\ pages[fl_cur].parent # NoPage
    /\ fl_depth < RecursionLimit
    /\ fl_line' = Append(fl_line, pages[fl_cur].parent)
    /\ fl_cur' = pages[fl_cur].parent
    /\ fl_depth' = fl_depth + 1
    /\ UNCHANGED <<fl_idx, fl_status, siteVars, slugVars, assetVars, otherVars>>

\* the page has a parent: insert it in front and call parse_family_line on it
WalkToParent ==
    /\ fl_status = "walking"
    /\ pages[fl_cur].parent # NoPage
    /\ fl_depth < RecursionLimit
    /\ fl_line' = <<pages[fl_cur].parent>> \o fl_line
    /\ fl_cur' = pages[fl_cur].parent
    /\ fl_depth' = fl_depth + 1
    /\ UNCHANGED <<fl_idx, fl_status, siteVars, slugVars, assetVars, otherVars>>

\* the same at the deepest call the interpreter allows: the call raises
RecursionOverflow ==
    /\ fl_status = "walking"
    /\ pages[fl_cur].parent # NoPage
    /\ fl_depth = RecursionLimit
    /\ fl_line' = <<pages[fl_cur].parent>> \o fl_line
    /\ fl_status' = "RecursionError"
    /\ UNCHANGED <<fl_idx, fl_cur, fl_depth, siteVars, slugVars, assetVars, otherVars>>

\* the page has no parent: every call returns family_line, which is stored
ReturnFamilyLine ==
    /\ fl_status = "walking"
    /\ pages[fl_cur].parent = NoPage
    /\ pages' = [pages EXCEPT ![fl_idx].family_line = fl_line]
    /\ fl_idx' = fl_idx + 1
    /\ fl_cur' = NoPage
    /\ fl_depth' = 0
    /\ fl_status' = IF fl_idx = Len(pages) THEN "done" ELSE "next"
    /\ UNCHANGED <<fl_line, root_page_id, urls, stack, slugVars, assetVars, otherVars>>

NextFamily == StartFamilyLine \/ WalkToParent \/ RecursionOverflow \/ ReturnFamilyLine

SpecFamily == InitFamily /\ [][NextFamily]_vars

-----------------------------------------------------------------------------
(* Asset localisation: download_and_replace_paths.                         *)

DescriptionLen == 150

file_ == <<"f", "i", "l", "e">>

\* urljoin(file_url, urlparse(file_url).path): the url without its query and
\* fragment (the urls of the model have a path, and no dot segment in it)
UrlWithoutQuery(u) ==
    LET cut == {i \in 1..Len(u) : u[i] \in {"?", "#"}}
    IN  IF cut = {} THEN u ELSE Upto(u, (CHOOSE i \in cut : \A j \in cut : i <= j) - 1)

\* the escapes unquote meets in the model
PercentDecoded(hex) ==
    IF hex = <<"2", "E">> THEN <<".">>
    ELSE IF hex = <<"2", "0">> THEN <<" ">>
    ELSE IF hex = <<"2", "F">> THEN <<"/">>
    ELSE <<"%">> \o hex

RECURSIVE unquote(_)
unquote(s) ==
    IF s = <<>> THEN <<>>
    ELSE IF s[1] = "%" /\ Len(s) >= 3 THEN PercentDecoded(SubSeq(s, 2, 3)) \o unquote(From(s, 3))
    ELSE <<s[1]>> \o unquote(Tail(s))

AssetFileName(file_url) ==
    clean_url_string(unquote(PathName(Path(UrlWithoutQuery(file_url)))), file_)

RECURSIVE NextFreeFile(_, _, _, _, _)
NextFreeFile(stem, suffix, par, D, i) ==
    LET cand == PathJoin(par, stem \o <<"_">> \o IntToStr(i) \o suffix)
    IN  IF as_posix(cand) \notin D THEN cand ELSE NextFreeFile(stem, suffix, par, D, i + 1)

\* target and the result are paths below output_dir, D the paths that exist
_unique_file_path(target, D) ==
    IF as_posix(target) \notin D THEN target
    ELSE NextFreeFile(PathStem(target), PathSuffix(target), PathParent(target), D, 2)

\* target_fs.parent.mkdir(parents=True, exist_ok=True)
MkdirParents(folder, D) == D \cup {as_posix(Upto(folder, k)) : k \in 1..Len(folder)}

\* urlretrieve raises ValueError for a url without a scheme; for any other url the
\* fetch succeeds, or the server answers with an error (HTTPError), or the
\* transport fails (URLError)
HasScheme(u) == Find(u, ":") > 0 /\ (Find(u, "/") < 0 \/ Find(u, ":") < Find(u, "/"))
Outcomes(u) == IF HasScheme(u) THEN {"ok", "HTTPError", "URLError"} ELSE {"ValueError"}

\* re.sub("<.*?>", " ", text)
RECURSIVE StripTags(_)
StripTags(s) ==
    IF s = <<>> THEN <<>>
    ELSE IF s[1] = "<" /\ ">" \in Range(s) THEN <<" ">> \o StripTags(From(s, Find(s, ">") + 1))
    ELSE <<s[1]>> \o StripTags(Tail(s))

\* " ".join(text.split())
RECURSIVE JoinWords(_)
JoinWords(s) ==
    LET t == LStrip(s, Whitespace)
        ends == {i \in 1..Len(t) : t[i] \in Whitespace}
        n == IF ends = {} THEN Len(t) ELSE (CHOOSE i \in ends : \A j \in ends : i <= j) - 1
        rest == LStrip(From(t, n), Whitespace)
    IN  IF t = <<>> THEN <<>>
        ELSE IF rest = <<>> THEN Upto(t, n)
        ELSE Upto(t, n) \o <<" ">> \o JoinWords(rest)

\* html.unescape changes nothing: the strings of the model hold no "&"
strip_html_tags(text) == IF text = <<>> THEN <<>> ELSE JoinWords(StripTags(text))

MdContentOf(page) == IF page.md_content = None THEN <<>> ELSE page.md_content

\* the loop body after a fetch that succeeded, lines 472-494
Localized(page, i_file, file_url, target_rel_url) ==
    LET md == Replace(MdContentOf(page), file_url, target_rel_url)
    IN  [page EXCEPT
            !.files[i_file] = target_rel_url,
            !.md_content = md,
            !.description = Upto(strip_html_tags(md), DescriptionLen),
            !.icon = IF @ = file_url THEN target_rel_url ELSE @,
            !.cover = IF @ = file_url THEN target_rel_url ELSE @,
            !.properties_md =
                IF page.type = "db_entry"
                THEN [k \in DOMAIN @ |->
                        IF Contains(@[k], file_url) THEN Replace(@[k], file_url, target_rel_url)
                        ELSE @[k]]
                ELSE @]

PageFolder(page) == PathParent(Path(page.url))

\* target_fs of lines 453-455, below output_dir
TargetOf(page, file_url, D) ==
    _unique_file_path(PathJoin(PageFolder(page), AssetFileName(file_url)),
                      MkdirParents(PageFolder(page), D))

TargetRelUrl(page, target) == _ensure_posix(PathJoin(PageFolder(page), PathName(target)))

-----------------------------------------------------------------------------
(* SpecAssets: download_and_replace_paths over a site of two pages.        *)

\* the asset urls; "h" stands for the scheme http
U_1 == <<"h", ":", "/", "/", "s", "/", "a", "%", "2", "E", "p">>
U_2 == U_1 \o <<"?", "k">>
U_rel == <<"b", ".", "p">>
\* an asset whose file name is the name of a page of the site
U_html == <<"h", ":", "/", "/", "s", "/", "a", ".", "h", "t", "m", "l">>
AssetUrls == {U_1, U_2}
IconUrls == {U_2}

\* the body parse_markdown leaves for a page that embeds the urls md_urls
MdContent(md_urls) ==
    <<"<", "b", ">", " ">> \o Join([i \in 1..Len(md_urls) |-> <<"(">> \o md_urls[i] \o <<")">>], <<>>)

\* p_files for one file; "clip" stands for the paperclip character
p_files(prop_urls) == Join([i \in 1..Len(prop_urls) |-> <<"[", "clip", "]", "(">> \o prop_urls[i] \o <<")">>], <<";", " ">>)

OneOrNone(S) == {<<>>} \cup {<<u>> : u \in S}

\* a page with its assets: parse_headers appends the cover and the icon to files,
\* parse_markdown the urls of the body, parse_db_entry_properties those of a files
\* property
WithAssets(page, cover, icon, md_urls, prop_urls) ==
    [page EXCEPT
        !.cover = IF cover = <<>> THEN None ELSE cover[1],
        !.icon = IF icon = <<>> THEN None ELSE icon[1],
        !.md_content = MdContent(md_urls),
        !.properties_md = IF page.type = "db_entry" THEN <<p_files(prop_urls)>> ELSE <<>>,
        !.files = cover \o icon \o md_urls \o (IF page.type = "db_entry" THEN prop_urls ELSE <<>>)]

\* generate_urls with its recursion run to the end
RECURSIVE GenerateAllUrls(_, _, _, _)
GenerateAllUrls(P, U, todo, root_id) ==
    IF todo = <<>> THEN [pages |-> P, urls |-> U]
    ELSE LET r == generate_urls(Head(todo), P, U, root_id)
         IN  GenerateAllUrls(r.pages, r.urls, P[Head(todo)].children \o Tail(todo), root_id)

AssetPageIds == {1, 2}
a_ == <<"a">>

\* the sites: a root and one child, each of them a page or a database
AssetSites ==
    {GenerateAllUrls(TreePages(AssetPageIds, [n \in {2} |-> 1], dbs, [n \in AssetPageIds |-> a_]),
                     <<>>, <<1>>, 1) : dbs \in DatabaseSets(AssetPageIds)}

InitAssets ==
    /\ root_page_id = 1
    /\ \E site \in AssetSites :
          /\ urls = site.urls
          /\ \E cover \in [AssetPageIds -> OneOrNone(AssetUrls)],
                icon \in [AssetPageIds -> OneOrNone(IconUrls)],
                md_urls \in [AssetPageIds -> OneOrNone(AssetUrls \cup {U_rel, U_html})],
                prop_urls \in [AssetPageIds -> OneOrNone(AssetUrls)] :
                /\ \A n \in AssetPageIds : site.pages[n].type # "db_entry" => prop_urls[n] = <<>>
                /\ pages = [n \in AssetPageIds |->
                              WithAssets(site.pages[n], cover[n], icon[n], md_urls[n], prop_urls[n])]
    /\ pages0 = pages
    /\ stack = <<>>
    /\ dl_page = 1
    /\ dl_file = 1
    /\ dl_status = "running"
    /\ disk = {}
    /\ fetched = <<>>
    /\ SlugIdle /\ FamilyIdle /\ OthersIdle

AtFile ==
    /\ dl_status = "running"
    /\ dl_page <= Len(pages)
    /\ pages[dl_page].url # None
    /\ dl_file <= Len(pages[dl_page].files)

Fetch(outcome) ==
    LET page == pages[dl_page]
        file_url == page.files[dl_file]
    IN  [page |-> dl_page, i_file |-> dl_file, file_url |-> file_url,
         target |-> as_posix(TargetOf(page, file_url, disk)), outcome |-> outcome]

\* one turn of the loop over the files whose fetch succeeds (or whose target exists)
LocalizeAsset ==
    /\ AtFile
    /\ LET page == pages[dl_page]
           file_url == page.files[dl_file]
           dirs == MkdirParents(PageFolder(page), disk)
           target == TargetOf(page, file_url, disk)
           exists == as_posix(target) \in dirs
       IN  /\ exists \/ "ok" \in Outcomes(file_url)
           /\ fetched' = IF exists THEN fetched ELSE Append(fetched, Fetch("ok"))
           /\ disk' = dirs \cup {as_posix(target)}
           /\ pages' = [pages EXCEPT
                          ![dl_page] = Localized(page, dl_file, file_url, TargetRelUrl(page, target))]
    /\ dl_file' = dl_file + 1
    /\ UNCHANGED <<dl_page, dl_status, pages0, root_page_id, urls, stack, slugVars, familyVars, otherVars>>

\* a turn whose fetch raises HTTPError or ValueError: the loop continues
SkipFailedAsset ==
    /\ AtFile
    /\ \E outcome \in Outcomes(pages[dl_page].files[dl_file]) \cap {"HTTPError", "ValueError"} :
          fetched' = Append(fetched, Fetch(outcome))
    /\ disk' = MkdirParents(PageFolder(pages[dl_page]), disk)
    /\ dl_file' = dl_file + 1
    /\ UNCHANGED <<dl_page, dl_status, pages0, siteVars, slugVars, familyVars, otherVars>>

\* a turn whose fetch raises URLError: no handler catches it
AbortOnTransportFailure ==
    /\ AtFile
    /\ "URLError" \in Outcomes(pages[dl_page].files[dl_file])
    /\ fetched' = Append(fetched, Fetch("URLError"))
    /\ disk' = MkdirParents(PageFolder(pages[dl_page]), disk)
    /\ dl_status' = "URLError"
    /\ UNCHANGED <<dl_page, dl_file, pages0, siteVars, slugVars, familyVars, otherVars>>

\* the files of the page are done (or it has no url): the next page, or the end
NextAssetPage ==
    /\ dl_status = "running"
    /\ dl_page <= Len(pages)
    /\ pages[dl_page].url = None \/ dl_file > Len(pages[dl_page].files)
    /\ dl_page' = dl_page + 1
    /\ dl_file' = 1
    /\ dl_status' = IF dl_page = Len(pages) THEN "done" ELSE "running"
    /\ UNCHANGED <<disk, fetched, pages0, siteVars, slugVars, familyVars, otherVars>>

\* config["download_files"] is false: structurize_notion_content does not call
\* download_and_replace_paths at all
DownloadFilesOff ==
    /\ dl_status = "running"
    /\ dl_page = 1 /\ dl_file = 1 /\ fetched = <<>>
    /\ dl_status' = "off"
    /\ UNCHANGED <<dl_page, dl_file, disk, fetched, pages0, siteVars, slugVars, familyVars, otherVars>>

NextAssets ==
    LocalizeAsset \/ SkipFailedAsset \/ AbortOnTransportFailure \/ NextAssetPage \/ DownloadFilesOff

SpecAssets == InitAssets /\ [][NextAssets]_vars

-----------------------------------------------------------------------------
(* Dates: the strings of the Date property, their order as strings and      *)
(* the datetime dateutil's isoparse makes of them.                          *)

\* the code points of the characters of a date string
CodePoint(c) ==
    CASE c = "+" -> 43
      [] c = "-" -> 45
      [] c = "." -> 46
      [] c = ":" -> 58
      [] c = "T" -> 84
      [] c = "Z" -> 90
      [] OTHER -> 48 + (CHOOSE d \in 0..9 : Digit(d) = c)

\* s < t for two Python strings
RECURSIVE StrLess(_, _)
StrLess(s, t) ==
    IF t = <<>> THEN FALSE
    ELSE IF s = <<>> THEN TRUE
    ELSE IF s[1] # t[1] THEN CodePoint(s[1]) < CodePoint(t[1])
    ELSE StrLess(Tail(s), Tail(t))

\* int() of a string of digits
RECURSIVE ParseInt(_)
ParseInt(s) ==
    IF s = <<>> THEN 0
    ELSE 10 * ParseInt(SubSeq(s, 1, Len(s) - 1)) + (CHOOSE d \in 0..9 : Digit(d) = s[Len(s)])

IsLeap(y) == y % 4 = 0 /\ (y % 100 # 0 \/ y % 400 = 0)

DaysBeforeMonth == <<0, 31, 59, 90, 120, 151, 181, 212, 243, 273, 304, 334>>

\* date.toordinal()
ToOrdinal(y, m, d) ==
    365 * (y - 1) + ((y - 1) \div 4) - ((y - 1) \div 100) + ((y - 1) \div 400)
    + DaysBeforeMonth[m] + (IF m > 2 /\ IsLeap(y) THEN 1 ELSE 0) + d

\* where the UTC offset of a date-time string starts, 0 when it has none
TzStart(s) ==
    LET at == {i \in 20..Len(s) : s[i] \in {"+", "-", "Z"}}
    IN  IF at = {} THEN 0 ELSE CHOOSE i \in at : \A j \in at : i <= j

\* isoparse of YYYY-MM-DD or YYYY-MM-DDThh:mm:ss[.fff][Z or +hh:mm or -hh:mm]: a
\* date alone is midnight; tzinfo is set (aware) only when the string has an offset
isoparse(s) ==
    LET has_time == Len(s) > 10
        tz == IF has_time THEN TzStart(s) ELSE 0
        frac_end == IF tz > 0 THEN tz - 1 ELSE Len(s)
        offset == IF tz = 0 \/ s[tz] = "Z" THEN 0
                  ELSE (IF s[tz] = "-" THEN -1 ELSE 1)
                       * (60 * ParseInt(SubSeq(s, tz + 1, tz + 2)) + ParseInt(SubSeq(s, tz + 4, tz + 5)))
    IN  [year |-> ParseInt(SubSeq(s, 1, 4)),
         month |-> ParseInt(SubSeq(s, 6, 7)),
         day |-> ParseInt(SubSeq(s, 9, 10)),
         hour |-> IF has_time THEN ParseInt(SubSeq(s, 12, 13)) ELSE 0,
         minute |-> IF has_time THEN ParseInt(SubSeq(s, 15, 16)) ELSE 0,
         second |-> IF has_time THEN ParseInt(SubSeq(s, 18, 19)) ELSE 0,
         millisecond |-> IF has_time /\ frac_end > 20 THEN ParseInt(SubSeq(s, 21, frac_end)) ELSE 0,
         aware |-> tz > 0,
         utcoffset |-> offset]

\* the minutes of the datetime since the year 1, in UTC when it is aware
UtcMinutes(dt) ==
    (ToOrdinal(dt.year, dt.month, dt.day) * 24 + dt.hour) * 60 + dt.minute - dt.utcoffset

\* a < b for two datetimes that are both aware or both naive
DtLess(a, b) ==
    \/ UtcMinutes(a) < UtcMinutes(b)
    \/ /\ UtcMinutes(a) = UtcMinutes(b)
       /\ \/ a.second < b.second
          \/ a.second = b.second /\ a.millisecond < b.millisecond

\* sorted(seq, key=...), where less[i][j] says that the key of seq[i] is smaller
\* than the key of seq[j]: a stable sort, so the place of an element is the number
\* of smaller ones plus the number of equal ones before it
StableSorted(seq, less) ==
    LET n == Len(seq)
        pos(i) == 1 + Cardinality({j \in 1..n : less[j][i]})
                    + Cardinality({j \in 1..(i - 1) : ~less[j][i] /\ ~less[i][j]})
    IN  [p \in 1..n |-> seq[CHOOSE i \in 1..n : pos(i) = p]]

-----------------------------------------------------------------------------
(* sorting_db_entries and sorting_page_by_year                              *)

Dated(page) == page.date # None /\ page.date # <<>>

\* as sort_key, without the leading 0 or 1: a page without a date gets ""
sort_key_date_only(P, cid) == <<0, IF Dated(P[cid]) THEN P[cid].date ELSE <<>>>>

sort_key(P, cid) == IF Dated(P[cid]) THEN <<0, P[cid].date>> ELSE <<1, <<>>>>

\* k1 < k2 for two tuples sort_key returns
KeyLess(k1, k2) == k1[1] < k2[1] \/ (k1[1] = k2[1] /\ StrLess(k1[2], k2[2]))

SortedChildren(P, children) ==
    StableSorted(children,
        [i \in DOMAIN children |-> [j \in DOMAIN children |->
            KeyLess(sort_key(P, children[i]), sort_key(P, children[j]))]])

sorting_db_entries(P) ==
    [n \in DOMAIN P |->
        IF P[n].type # "database" THEN P[n]
        ELSE IF Len(P[n].children) <= 1 THEN P[n]
        ELSE IF ~\E i \in 1..Len(P[n].children) : Dated(P[P[n].children[i]]) THEN P[n]
        ELSE [P[n] EXCEPT !.children = SortedChildren(P, @)]]

\* structured_notion["sorted_pages"] before it is sorted: (page_id, datetime) items
sorted_pages_items(P) ==
    LET ids == SelectSeq([i \in 1..Len(P) |-> i], LAMBDA n : Dated(P[n]))
    IN  [i \in 1..Len(ids) |-> [page_id |-> ids[i], dt |-> isoparse(P[ids[i]].date)]]

\* comparing an aware datetime with a naive one raises TypeError
SortRaisesTypeError(items) ==
    \E i, j \in 1..Len(items) : items[i].dt.aware # items[j].dt.aware

\* sorted(..., key=lambda item: item[1], reverse=True)
SortedByDateReversed(items) ==
    StableSorted(items,
        [i \in DOMAIN items |-> [j \in DOMAIN items |-> DtLess(items[j].dt, items[i].dt)]])

\* the loop over groupby(..., key=year): every run of one year is stored under its
\* year; a later run of the same year takes the place of the earlier one
RECURSIVE GroupByYear(_, _)
GroupByYear(items, result) ==
    IF items = <<>> THEN result
    ELSE LET year == items[1].dt.year
             ends == {i \in 1..Len(items) : items[i].dt.year # year}
             n == IF ends = {} THEN Len(items) ELSE (CHOOSE i \in ends : \A j \in ends : i <= j) - 1
             ids == [i \in 1..n |-> items[i].page_id]
             at == {k \in 1..Len(result) : result[k].year = year}
         IN  GroupByYear(SubSeq(items, n + 1, Len(items)),
                         IF at = {} THEN Append(result, [year |-> year, ids |-> ids])
                         ELSE [k \in 1..Len(result) |->
                                  IF k \in at THEN [year |-> year, ids |-> ids] ELSE result[k]])

sorting_page_by_year(P) == GroupByYear(SortedByDateReversed(sorted_pages_items(P)), <<>>)

-----------------------------------------------------------------------------
(* SpecSorting: sorting_db_entries, then sorting_page_by_year, over a root  *)
(* and its children: a database with its entries, or a page with its        *)
(* sub-pages.  Only a database entry has a date.                            *)

Pad2(n) == <<Digit(n \div 10), Digit(n % 10)>>

\* a date as Notion writes it
IsoDate(y, m, d) == IntToStr(y) \o <<"-">> \o Pad2(m) \o <<"-">> \o Pad2(d)

\* a date with a time: Notion writes milliseconds and the UTC offset
IsoDateTime(y, m, d, hh, mm, sign, off) ==
    IsoDate(y, m, d) \o <<"T">> \o Pad2(hh) \o <<":">> \o Pad2(mm)
    \o <<":", "0", "0", ".", "0", "0", "0", sign>> \o Pad2(off) \o <<":", "0", "0">>

DateStrings ==
    {IsoDate(2022, 12, 31), IsoDate(2023, 1, 1), IsoDate(2023, 6, 1),
     IsoDateTime(2022, 12, 31, 23, 0, "+", 0),
     IsoDateTime(2023, 1, 1, 0, 30, "+", 2),
     IsoDateTime(2023, 6, 1, 10, 0, "-", 4)}

InitSorting ==
    /\ root_page_id = 1
    /\ \E root_type \in {"database", "page"}, date \in [PageIds \ {1} -> DateStrings \cup {None}] :
          /\ root_type = "page" => \A n \in PageIds \ {1} : date[n] = None
          /\ pages = [n \in PageIds |->
                        [TreePages(PageIds, [m \in PageIds \ {1} |-> 1],
                                   IF root_type = "database" THEN {1} ELSE {},
                                   [m \in PageIds |-> T_])[n]
                            EXCEPT !.date = IF n = 1 THEN None ELSE date[n]]]
    /\ urls = <<>>
    /\ stack = <<>>
    /\ so_status = "sort_db"
    /\ sorted_id_by_year = <<>>
    /\ SlugIdle /\ FamilyIdle /\ AssetIdle /\ HeaderIdle /\ RenderIdle /\ PropIdle /\ CrawlIdle

SortingDbEntries ==
    /\ so_status = "sort_db"
    /\ pages' = sorting_db_entries(pages)
    /\ so_status' = "by_year"
    /\ UNCHANGED <<sorted_id_by_year, root_page_id, urls, stack, slugVars, familyVars, assetVars, headerVars, renderVars, propVars, crawlVars>>

SortingPageByYear ==
    /\ so_status = "by_year"
    /\ ~SortRaisesTypeError(sorted_pages_items(pages))
    /\ sorted_id_by_year' = sorting_page_by_year(pages)
    /\ so_status' = "done"
    /\ UNCHANGED <<siteVars, slugVars, familyVars, assetVars, headerVars, renderVars, propVars, crawlVars>>

\* sorted() raises: the exception leaves structurize_notion_content
SortingPageByYearFails ==
    /\ so_status = "by_year"
    /\ SortRaisesTypeError(sorted_pages_items(pages))
    /\ so_status' = "TypeError"
    /\ UNCHANGED <<sorted_id_by_year, siteVars, slugVars, familyVars, assetVars, headerVars, renderVars, propVars, crawlVars>>

NextSorting == SortingDbEntries \/ SortingPageByYear \/ SortingPageByYearFails

SpecSorting == InitSorting /\ [][NextSorting]_vars

-----------------------------------------------------------------------------
(* parse_headers and find_lists_in_dbs                                      *)

\* the value of a key the raw record does not have (of "type" for a missing "parent")
Missing == "<missing>"

\* d[k] = v for a dict d
Put(d, k, v) == [x \in DOMAIN d \cup {k} |-> IF x = k THEN v ELSE d[x]]

\* the keys of a dict after d[k] = ..., in the order of insertion
PutKey(keys, k) == IF k \in Range(keys) THEN keys ELSE Append(keys, k)

\* {"files": [], "children": []}
Placeholder == [files |-> <<>>, children |-> <<>>]

HasKey(rec, key) == key \in DOMAIN rec

\* rec.get(key)
Get(rec, key) == IF key \in DOMAIN rec THEN rec[key] ELSE None

\* the type parse_headers gives a record that has "object" and "parent"
HeaderType(page) == IF page.parent.type = "database_id" THEN "db_entry" ELSE page.object

\* parent_id of lines 135-143
HeaderParent(page) ==
    IF page.parent.type = "workspace" THEN NoPage
    ELSE IF HeaderType(page) \in {"page", "database"}
         THEN (IF page.parent.type = "page_id" THEN page.parent.id ELSE NoPage)
         ELSE page.parent.id

\* lines 148-152
AttachChild(np, parent_id, page_id) ==
    IF parent_id = NoPage THEN np
    ELSE LET with_parent == IF parent_id \in DOMAIN np THEN np ELSE Put(np, parent_id, Placeholder)
         IN  [with_parent EXCEPT ![parent_id].children = Append(@, page_id)]

\* one turn of the loop of parse_headers for a record with "object" and "parent"
parse_header(np, page) ==
    LET rec == [files |-> IF page.cover = None THEN <<>> ELSE <<page.cover>>,
                children |-> <<>>,
                type |-> HeaderType(page),
                title |-> page.title,
                parent |-> HeaderParent(page),
                cover |-> page.cover]
    IN  AttachChild(Put(np, page.id, rec), HeaderParent(page), page.id)

\* the turn up to the KeyError for a record without "object" or without "parent"
parse_header_partial(np, page) ==
    IF page.object = Missing THEN Put(np, page.id, Placeholder)
    ELSE Put(np, page.id, [files |-> <<>>, children |-> <<>>, type |-> page.object])

\* the keys find_lists_in_dbs visits before page["type"] raises KeyError: all of
\* them when every record has a type
VisitedKeys(np, keys) ==
    LET bad == {i \in 1..Len(keys) : ~HasKey(np[keys[i]], "type")}
    IN  IF bad = {} THEN keys ELSE SubSeq(keys, 1, (CHOOSE i \in bad : \A j \in bad : i <= j) - 1)

find_lists_in_dbs(np, keys) ==
    [n \in DOMAIN np |->
        IF /\ n \in Range(VisitedKeys(np, keys))
           /\ np[n].type = "database"
           /\ \E i \in 1..Len(np[n].children) : Get(np[np[n].children[i]], "cover") = None
        THEN [x \in DOMAIN np[n] \cup {"db_list"} |-> IF x = "db_list" THEN TRUE ELSE np[n][x]]
        ELSE np[n]]

-----------------------------------------------------------------------------
(* SpecHeaders: parse_headers over the records of a raw graph, then         *)
(* find_lists_in_dbs.  The graph is a tree of NumPages records; its root is *)
(* at the top of the workspace or a sub-page of a page that was not         *)
(* crawled; the records are visited in the order of the dict; one record    *)
(* may lack "object" or "parent".                                           *)

\* the id of the page above the export root, of which there is no record
Uncrawled == NumPages + 1

\* the orders of the records: the order of the ids, or two records exchanged
Orders(ids) ==
    {SortedSeq(ids)} \cup
    {[i \in 1..Cardinality(ids) |-> IF i = a THEN b ELSE IF i = b THEN a ELSE i] : a, b \in ids}

\* at most one record lacks one of the keys
Lacks(ids) == {<<NoPage, Missing>>} \cup (ids \X {"object", "parent"})

RawRecord(n, par, dbs, root_parent, lack, cover) ==
    [id |-> n,
     object |-> IF lack = <<n, "object">> THEN Missing
                ELSE IF n \in dbs THEN "database" ELSE "page",
     parent |-> IF lack = <<n, "parent">> THEN [type |-> Missing, id |-> NoPage]
                ELSE IF n = 1 THEN root_parent
                ELSE IF par[n] \in dbs THEN [type |-> "database_id", id |-> par[n]]
                ELSE [type |-> "page_id", id |-> par[n]],
     title |-> T_,
     cover |-> cover]

InitHeaders ==
    /\ \E order \in Orders(PageIds), par \in Trees(PageIds), dbs \in DatabaseSets(PageIds),
          root_parent \in {[type |-> "workspace", id |-> NoPage], [type |-> "page_id", id |-> Uncrawled]},
          lack \in Lacks(PageIds), cover \in {None, U_1} :
          raw_notion = [i \in 1..NumPages |-> RawRecord(order[i], par, dbs, root_parent, lack, cover)]
    /\ notion_pages = <<>>
    /\ np_keys = <<>>
    /\ ph_idx = 1
    /\ ph_status = "parsing"
    /\ SlugIdle /\ SiteIdle /\ FamilyIdle /\ AssetIdle /\ SortIdle /\ RenderIdle /\ PropIdle /\ CrawlIdle

\* one turn of the loop of parse_headers
ParseHeader ==
    /\ ph_status = "parsing"
    /\ LET page == raw_notion[ph_idx]
           parent_id == HeaderParent(page)
       IN  /\ page.object # Missing /\ page.parent.type # Missing
           /\ notion_pages' = parse_header(notion_pages, page)
           /\ np_keys' = IF parent_id = NoPage THEN PutKey(np_keys, page.id)
                         ELSE PutKey(PutKey(np_keys, page.id), parent_id)
    /\ ph_idx' = ph_idx + 1
    /\ ph_status' = IF ph_idx = Len(raw_notion) THEN "parsed" ELSE "parsing"
    /\ UNCHANGED <<raw_notion, slugVars, siteVars, familyVars, assetVars, sortVars, renderVars, propVars, crawlVars>>

\* page["object"] or page["parent"] raises KeyError, which leaves parse_headers
ParseHeaderKeyError ==
    /\ ph_status = "parsing"
    /\ LET page == raw_notion[ph_idx]
       IN  /\ page.object = Missing \/ page.parent.type = Missing
           /\ notion_pages' = parse_header_partial(notion_pages, page)
           /\ np_keys' = PutKey(np_keys, page.id)
    /\ ph_status' = "KeyError"
    /\ UNCHANGED <<raw_notion, ph_idx, slugVars, siteVars, familyVars, assetVars, sortVars, renderVars, propVars, crawlVars>>

\* find_lists_in_dbs, to its end or to the KeyError of page["type"]
FindListsInDbs ==
    /\ ph_status = "parsed"
    /\ notion_pages' = find_lists_in_dbs(notion_pages, np_keys)
    /\ ph_status' = IF VisitedKeys(notion_pages, np_keys) = np_keys THEN "done" ELSE "KeyError"
    /\ UNCHANGED <<raw_notion, np_keys, ph_idx, slugVars, siteVars, familyVars, assetVars, sortVars, renderVars, propVars, crawlVars>>

NextHeaders == ParseHeader \/ ParseHeaderKeyError \/ FindListsInDbs

SpecHeaders == InitHeaders /\ [][NextHeaders]_vars

-----------------------------------------------------------------------------
(* generate_pages and generate_page (src/notion4ever/site_generation.py)    *)

dot_md == <<".", "m", "d">>

\* rel_folder: folder_path.relative_to(output_dir) raises ValueError unless the url
\* is an absolute path below output_dir, and then rel_folder is Path("."); output_dir
\* is absolute, the urls generate_urls assigns are relative
rel_folder(page_url) == Path(<<".">>)

\* md_path, relative to output_dir
md_path(page_id, page) ==
    PathJoin(rel_folder(page.url), clean_url_string(page.title, UntitledFallback(page_id)) \o dot_md)

\* html_path, relative to output_dir
html_path(page) ==
    PathJoin(rel_folder(page.url), clean_url_string(PathName(Path(page.url)), index_))

\* where generate_page can raise: before the markdown file is opened, after it is
\* written (markdown.markdown, reading the template), or while the template is
\* rendered inside open(html_path, "w+")
FailurePoints == {"start", "markdown", "render"}

\* the files generate_page writes up to the point where it raises ("none": to its end)
WritesOf(page_id, page, failed_at) ==
    LET md == [page |-> page_id, path |-> as_posix(md_path(page_id, page)), kind |-> "md", complete |-> TRUE]
        html == [page |-> page_id, path |-> as_posix(html_path(page)), kind |-> "html",
                 complete |-> failed_at = "none"]
    IN  IF failed_at = "start" THEN <<>>
        ELSE IF failed_at = "markdown" THEN <<md>>
        ELSE <<md, html>>

-----------------------------------------------------------------------------
(* SpecRender: generate_pages over the pages of a site with its urls        *)
(* assigned; any call of generate_page may raise.                           *)

RenderSites ==
    {GenerateAllUrls(TreePages(PageIds, par, {}, [n \in PageIds |-> a_]), <<>>, <<1>>, 1) :
        par \in Trees(PageIds)}

InitRender ==
    /\ root_page_id = 1
    /\ \E site \in RenderSites : pages = site.pages /\ urls = site.urls
    /\ stack = <<>>
    /\ gp_idx = 1
    /\ gp_status = "running"
    /\ gp_calls = <<>>
    /\ gp_writes = <<>>
    /\ SlugIdle /\ FamilyIdle /\ AssetIdle /\ SortIdle /\ HeaderIdle /\ PropIdle /\ CrawlIdle

\* generate_page returns
GeneratePage ==
    /\ gp_status = "running"
    /\ gp_calls' = Append(gp_calls, [page |-> gp_idx, failed_at |-> "none", logged |-> FALSE])
    /\ gp_writes' = gp_writes \o WritesOf(gp_idx, pages[gp_idx], "none")
    /\ gp_idx' = gp_idx + 1
    /\ gp_status' = IF gp_idx = Len(pages) THEN "done" ELSE "running"
    /\ UNCHANGED <<siteVars, slugVars, familyVars, assetVars, sortVars, headerVars, propVars, crawlVars>>

\* as GeneratePageFails, with no handler around generate_page
GeneratePageFailsUncaught ==
    /\ gp_status = "running"
    /\ \E failed_at \in FailurePoints :
          /\ gp_calls' = Append(gp_calls, [page |-> gp_idx, failed_at |-> failed_at, logged |-> FALSE])
          /\ gp_writes' = gp_writes \o WritesOf(gp_idx, pages[gp_idx], failed_at)
    /\ gp_status' = "Exception"
    /\ UNCHANGED <<gp_idx, siteVars, slugVars, familyVars, assetVars, sortVars, headerVars, propVars, crawlVars>>

\* generate_page raises an Exception: it is logged and the loop goes on
GeneratePageFails ==
    /\ gp_status = "running"
    /\ \E failed_at \in FailurePoints :
          /\ gp_calls' = Append(gp_calls, [page |-> gp_idx, failed_at |-> failed_at, logged |-> TRUE])
          /\ gp_writes' = gp_writes \o WritesOf(gp_idx, pages[gp_idx], failed_at)
    /\ gp_idx' = gp_idx + 1
    /\ gp_status' = IF gp_idx = Len(pages) THEN "done" ELSE "running"
    /\ UNCHANGED <<siteVars, slugVars, familyVars, assetVars, sortVars, headerVars, propVars, crawlVars>>

NextRender == GeneratePage \/ GeneratePageFails

SpecRender == InitRender /\ [][NextRender]_vars

-----------------------------------------------------------------------------
(* parse_db_entry_properties                                                *)

\* the keys of properties_map
SupportedKinds ==
    {"rich_text", "number", "select", "multi_select", "date", "people", "files",
     "checkbox", "url", "email", "phone_number", "created_time", "last_edited_time"}

\* _extract_notion_file_url
_extract_notion_file_url(file_obj) ==
    IF file_obj.type \in {"file", "external"} THEN file_obj.url ELSE None

\* the urls of a files property that are neither None nor empty, in their order
ExtractedUrls(prop) ==
    LET all == [i \in 1..Len(prop.value) |-> _extract_notion_file_url(prop.value[i])]
    IN  SelectSeq(all, LAMBDA u : u # None /\ u # <<>>)

\* "web" stands for the spider web character
p_url(prop) ==
    IF prop.value # None /\ prop.value # <<>>
    THEN <<"[", "web", "]", "(">> \o prop.value \o <<")">>
    ELSE <<>>

p_checkbox(prop) ==
    <<"-", " ">> \o (IF prop.value = TRUE THEN <<"[", "x", "]">> ELSE <<"[", " ", "]">>)

\* properties_map[ptype](prop), for the kinds of the model
RenderProperty(prop) ==
    CASE prop.type = "files" -> p_files(ExtractedUrls(prop))
      [] prop.type = "checkbox" -> p_checkbox(prop)
      [] prop.type = "url" -> p_url(prop)

\* as PropertiesMd, with an entry for the title property too
PropertiesMdWithTitle(properties) ==
    [name \in DOMAIN properties |->
        IF properties[name].type \in SupportedKinds THEN RenderProperty(properties[name]) ELSE <<>>]

\* properties_md after the loop over the properties, lines 395-412
PropertiesMd(properties) ==
    [name \in {k \in DOMAIN properties : properties[k].type # "title"} |->
        IF properties[name].type \in SupportedKinds THEN RenderProperty(properties[name]) ELSE <<>>]

\* the urls the loop appends to files; keys gives the order of properties.items()
RECURSIVE CollectedFiles(_, _)
CollectedFiles(properties, keys) ==
    IF keys = <<>> THEN <<>>
    ELSE (IF properties[Head(keys)].type = "files" THEN ExtractedUrls(properties[Head(keys)]) ELSE <<>>)
         \o CollectedFiles(properties, Tail(keys))

\* one turn of the loop over the pages, for a db_entry
parse_db_entry_properties(page, raw_page) ==
    [page EXCEPT
        !.properties = raw_page.properties,
        !.properties_md = PropertiesMd(raw_page.properties),
        !.files = @ \o CollectedFiles(raw_page.properties, raw_page.property_keys)]

-----------------------------------------------------------------------------
(* SpecProps: parse_db_entry_properties over a database and its entries.    *)
(* The database has a title column, a files column, a checkbox, a url and   *)
(* two columns of kinds that properties_map does not have; the checkbox and  *)
(* the url are filled in the first entry only.                              *)

PropertyKeys == <<"Name", "Files", "Done", "Link", "Status", "Calc">>

FileLists ==
    {<<>>,
     <<[type |-> "external", url |-> U_1]>>,
     <<[type |-> "file", url |-> U_2], [type |-> "file", url |-> None], [type |-> "external", url |-> U_1]>>}

PropertySets ==
    {[Name |-> [type |-> "title", value |-> T_],
      Files |-> [type |-> "files", value |-> fl],
      Done |-> [type |-> "checkbox", value |-> done],
      Link |-> [type |-> "url", value |-> link],
      Status |-> [type |-> "status", value |-> T_],
      Calc |-> [type |-> "formula", value |-> T_]] :
        fl \in FileLists, done \in BOOLEAN, link \in {None, U_1}}

InitProps ==
    /\ root_page_id = 1
    /\ \E site \in {GenerateAllUrls(TreePages(PageIds, [n \in PageIds \ {1} |-> 1], {1},
                                              [n \in PageIds |-> a_]), <<>>, <<1>>, 1)} :
          pages = site.pages /\ urls = site.urls
    /\ stack = <<>>
    /\ \E props \in [PageIds \ {1} -> PropertySets] :
          /\ \A n \in PageIds \ {1, 2} : props[n].Done.value = FALSE /\ props[n].Link.value = None
          /\ raw_notion = [n \in PageIds |->
                             [id |-> n,
                              properties |-> IF n = 1 THEN <<>> ELSE props[n],
                              property_keys |-> IF n = 1 THEN <<>> ELSE PropertyKeys]]
    /\ notion_pages = <<>> /\ np_keys = <<>> /\ ph_idx = 0 /\ ph_status = "idle"
    /\ pp_idx = 1
    /\ pp_status = "running"
    /\ SlugIdle /\ FamilyIdle /\ AssetIdle /\ SortIdle /\ RenderIdle /\ CrawlIdle

\* one turn of the loop over the pages
ParseDbEntryProperties ==
    /\ pp_status = "running"
    /\ pages' = IF pages[pp_idx].type # "db_entry" THEN pages
                ELSE [pages EXCEPT ![pp_idx] = parse_db_entry_properties(@, raw_notion[pp_idx])]
    /\ pp_idx' = pp_idx + 1
    /\ pp_status' = IF pp_idx = Len(pages) THEN "done" ELSE "running"
    /\ UNCHANGED <<root_page_id, urls, stack, slugVars, familyVars, assetVars, sortVars, headerVars, renderVars, crawlVars>>

NextProps == ParseDbEntryProperties

SpecProps == InitProps /\ [][NextProps]_vars

-----------------------------------------------------------------------------
(* block_parser (src/notion4ever/notion2json.py)                            *)

\* next_cursor of the last result page
NoCursor == 0

\* the answer of notion.blocks.children.list(block_id, start_cursor=cursor): the
\* result page the cursor names, the first one without a cursor
children_list(results, cursor) ==
    LET k == IF cursor = NoCursor THEN 1 ELSE cursor
    IN  [results |-> results[k],
         next_cursor |-> IF k < Len(results) THEN k + 1 ELSE NoCursor]

RECURSIVE Flatten(_)
Flatten(seqs) == IF seqs = <<>> THEN <<>> ELSE Head(seqs) \o Flatten(Tail(seqs))

-----------------------------------------------------------------------------
(* SpecCrawl: block_parser on one block whose child blocks the API returns  *)
(* in one or more result pages.  The child blocks have no children of their *)
(* own.  The turns of the while loop are counted up to MaxTurns.            *)

MaxBlocks == 5
MaxTurns == 4

\* the ways the API may cut the child blocks 1..k into result pages
RECURSIVE ResultPages(_, _)
ResultPages(first, last) ==
    IF first > last THEN {<<>>}
    ELSE UNION {{<<[i \in 1..(cut - first + 1) |-> first + i - 1]>> \o rest :
                    rest \in ResultPages(cut + 1, last)} : cut \in first..last}

InitCrawl ==
    /\ \E k \in 0..MaxBlocks : api_results \in ResultPages(1, k)
    /\ block = [id |-> 0, has_children |-> api_results # <<>>, children |-> None]
    /\ start_cursor = NoCursor
    /\ blocks = [results |-> <<>>, next_cursor |-> NoCursor]
    /\ bp_turns = 0
    /\ bp_status = "called"
    /\ SlugIdle /\ SiteIdle /\ FamilyIdle /\ AssetIdle /\ SortIdle /\ HeaderIdle /\ RenderIdle /\ PropIdle

\* block["has_children"] is false: block_parser returns the block as it is
ReturnLeafBlock ==
    /\ bp_status = "called"
    /\ ~block.has_children
    /\ bp_status' = "done"
    /\ UNCHANGED <<api_results, block, start_cursor, blocks, bp_turns>>
    /\ UNCHANGED <<slugVars, siteVars, familyVars, assetVars, sortVars, headerVars, renderVars, propVars>>

\* block["has_children"] is true: lines 29 and 30
EnterLoop ==
    /\ bp_status = "called"
    /\ block.has_children
    /\ block' = [block EXCEPT !.children = <<>>]
    /\ start_cursor' = NoCursor
    /\ bp_status' = "loop"
    /\ UNCHANGED <<api_results, blocks, bp_turns>>
    /\ UNCHANGED <<slugVars, siteVars, familyVars, assetVars, sortVars, headerVars, renderVars, propVars>>

\* a turn of the while loop with start_cursor None: the first result page is fetched
ListChildren ==
    /\ bp_status = "loop"
    /\ start_cursor = NoCursor
    /\ bp_turns < MaxTurns
    /\ LET answer == children_list(api_results, NoCursor)
       IN  /\ blocks' = answer
           /\ start_cursor' = answer.next_cursor
           /\ block' = [block EXCEPT !.children = @ \o answer.results]
           /\ bp_status' = IF answer.next_cursor = NoCursor THEN "children" ELSE "loop"
    /\ bp_turns' = bp_turns + 1
    /\ UNCHANGED api_results
    /\ UNCHANGED <<slugVars, siteVars, familyVars, assetVars, sortVars, headerVars, renderVars, propVars>>

\* a turn of the while loop with a start_cursor: nothing is fetched, blocks is still
\* the answer of the turn before
RepeatResults ==
    /\ bp_status = "loop"
    /\ start_cursor # NoCursor
    /\ bp_turns < MaxTurns
    /\ start_cursor' = blocks.next_cursor
    /\ block' = [block EXCEPT !.children = @ \o blocks.results]
    /\ bp_status' = IF blocks.next_cursor = NoCursor THEN "children" ELSE "loop"
    /\ bp_turns' = bp_turns + 1
    /\ UNCHANGED <<api_results, blocks>>
    /\ UNCHANGED <<slugVars, siteVars, familyVars, assetVars, sortVars, headerVars, renderVars, propVars>>

\* the loop over block["children"]: block_parser on a child without children
\* returns at once; then block_parser returns the block
ParseChildBlocks ==
    /\ bp_status = "children"
    /\ bp_status' = "done"
    /\ UNCHANGED <<api_results, block, start_cursor, blocks, bp_turns>>
    /\ UNCHANGED <<slugVars, siteVars, familyVars, assetVars, sortVars, headerVars, renderVars, propVars>>

NextCrawl == ReturnLeafBlock \/ EnterLoop \/ ListChildren \/ RepeatResults \/ ParseChildBlocks

SpecCrawl == InitCrawl /\ [][NextCrawl]_vars

-----------------------------------------------------------------------------
(* Claims about slugs.                                                     *)

ClaimForbidden == {"/", "\\", ":", "*", "?", "\"", "<", ">", "|", TAB, SOH}

\* C5: the slug of any title is non-empty, holds none of / \ : * ? " < > | and no
\* control character, and ends neither with a dot nor with a space.
C5_SlugIsSafe ==
    sl_pc = "done" =>
        /\ sl_slug # None
        /\ Len(sl_slug) > 0
        /\ Range(sl_slug) \cap ClaimForbidden = {}
        /\ sl_slug[Len(sl_slug)] \notin {".", " "}

C5_Witness ==
    /\ sl_pc = "done"
    /\ sl_title # None
    /\ Len(sl_title) = 3
    /\ sl_title[1] = "a"
    /\ sl_title[2] \in ClaimForbidden
    /\ sl_title[3] = "."
    /\ Len(sl_slug) = 2

BlankTitle(t) ==
    \/ t = None
    \/ Range(t) \subseteq Whitespace
    \/ Range(t) \subseteq ClaimForbidden

\* C6: a title that is null, empty, whitespace-only or made only of forbidden
\* characters gets the slug 'untitled_' followed by the first 8 characters of the id.
C6_BlankTitleFallsBack ==
    (sl_pc = "done" /\ BlankTitle(sl_title)) =>
        sl_slug = untitled_ \o SubSeq(PageIdStr(sl_page_id), 1, 8)

-----------------------------------------------------------------------------
(* Claims about urls.                                                      *)

Assigned == {n \in DOMAIN pages : pages[n].url # None}

UrlsDone == stack = <<>> /\ urls # <<>>

RECURSIVE Depth(_)
Depth(n) == IF pages[n].parent = NoPage THEN 0 ELSE 1 + Depth(pages[n].parent)

\* C1: the urls of the nodes are pairwise distinct, and the list of assigned urls
\* holds each assigned url exactly once.
C1_UrlsPairwiseDistinct ==
    /\ \A n, m \in Assigned : n # m => pages[n].url # pages[m].url
    /\ \A i, j \in 1..Len(urls) : i # j => urls[i] # urls[j]
    /\ Range(urls) = {pages[n].url : n \in Assigned}
    /\ UrlsDone => Assigned = DOMAIN pages

C1_Witness ==
    /\ UrlsDone
    /\ \E n, m, k \in DOMAIN pages :
          /\ pages[n].title = T_ /\ pages[m].title = T_ /\ Depth(n) # Depth(m)
          /\ pages[k].title = T_2
    /\ \E n, m \in DOMAIN pages :
          n # m /\ pages[n].title = T_2 /\ pages[m].title = T_
             /\ pages[n].parent = pages[m].parent

\* C2: the root is assigned 'index.html', whatever its title.
C2_RootIsIndex ==
    /\ urls # <<>> => pages[root_page_id].url = index_html
    /\ urls # <<>> => urls[1] = index_html

C2_Witness ==
    /\ UrlsDone
    /\ pages[root_page_id].title = index_
    /\ \E n \in DOMAIN pages : n # root_page_id /\ pages[n].title = index_

\* the members of one group of siblings, in children order: the children of p of
\* one kind (container or leaf) that carry the title t
SiblingGroup(p, t, container) ==
    SelectSeq(pages[p].children,
              LAMBDA n : pages[n].title = t /\ _is_container_page(pages[n]) = container)

SiblingGroups ==
    {g \in {SiblingGroup(p, t, c) : p \in DOMAIN pages, t \in TreeTitles \ {None}, c \in BOOLEAN} :
        Len(g) >= 2}

\* path with '_i' put before the extension of its file name; i = 1 is the path itself
Suffixed(path, i) ==
    IF i = 1 THEN path
    ELSE LET d == RFind(path, ".")
         IN  Upto(path, d) \o <<"_">> \o IntToStr(i) \o From(path, d)

GroupCandidate(g) == CandidateUrl(g[1], pages, root_page_id)

DirOf(u) == Upto(u, RFind(u, "/") + 1)

IsContainer(n) == pages[n].type = "database" \/ Len(pages[n].children) >= 1

ExpectedUrl(n) ==
    DirOf(pages[pages[n].parent].url)
        \o clean_url_string(pages[n].title, UntitledFallback(n))
        \o (IF IsContainer(n) THEN <<"/">> \o index_html ELSE dot_html)

AssignedBefore(n) ==
    {urls[i] : i \in {k \in 1..Len(urls) : \E j \in k + 1..Len(urls) : urls[j] = pages[n].url}}

\* C4: a non-root node whose candidate path is free gets <parent-directory>/<slug>/
\* index.html when it is a container and <parent-directory>/<slug>.html when it is a
\* leaf; every node's url lies in the directory of its parent's url.
C4_UrlFollowsParentDirectory ==
    \A n \in Assigned \ {root_page_id} :
        LET expected == ExpectedUrl(n)
            parent_dir == DirOf(pages[pages[n].parent].url)
        IN  /\ pages[n].url = expected \/ expected \in AssignedBefore(n)
            /\ StartsAt(pages[n].url, parent_dir, 1)
            /\ Len(pages[n].url) > Len(parent_dir)

C4_Witness ==
    /\ UrlsDone
    /\ \E n, m \in DOMAIN pages :
          /\ pages[n].type = "database" /\ pages[n].children = <<>> /\ Depth(n) = 2
          /\ pages[n].url = ExpectedUrl(n)
          /\ pages[m].type = "page" /\ pages[m].children = <<>> /\ Depth(m) = 2
          /\ pages[m].url = ExpectedUrl(m)
          /\ pages[m].parent = pages[n].parent

-----------------------------------------------------------------------------
(* Claims about family lines.                                              *)

\* the chain being built: the page the walk started from, then its ancestors
Chain == IF fl_status \in {"walking", "RecursionError"} THEN <<fl_idx>> \o fl_line ELSE <<>>

HasRevisit(chain) == \E i, j \in 1..Len(chain) : i # j /\ chain[i] = chain[j]

\* C7: on a cycle of parent pointers the walk stops with a fatal error as soon as it
\* revisits a node of the chain being built: a chain that holds a node twice is one
\* the walk has just ended on, no longer than the pages plus the revisited one.
C7_WalkStopsAtFirstRevisit ==
    HasRevisit(Chain) =>
        /\ fl_status = "RecursionError"
        /\ Len(Chain) <= Len(pages) + 1

-----------------------------------------------------------------------------
(* Claims about the family lines of a tree.                                 *)

\* the k-th ancestor of page n, NoPage above the top
RECURSIVE Up(_, _)
Up(n, k) ==
    IF k = 0 THEN n
    ELSE LET below == Up(n, k - 1)
         IN  IF below = NoPage THEN NoPage ELSE pages[below].parent

\* the parent pointers from n lead to a page without a parent
ReachesTop(n) == \E k \in 1..Len(pages) : Up(n, k) = NoPage

\* the number of ancestors of a page n that reaches the top
NumAncestors(n) == (CHOOSE k \in 1..Len(pages) : Up(n, k) = NoPage /\ Up(n, k - 1) # NoPage) - 1

\* the ancestors of n from the top down to its parent
AncestorsTopDown(n) == [i \in 1..NumAncestors(n) |-> Up(n, NumAncestors(n) - i + 1)]

\* the pages whose family_line parse_family_lines has stored
LineStored(n) == fl_status # "idle" /\ n < fl_idx

\* C18: where the parent pointers have no cycle, the family_line stored for a node
\* is the list of its ancestors, the top one first and its direct parent last, each
\* of them once; the family_line of a node without a parent is empty.
C18_FamilyLineRootFirst ==
    \A n \in DOMAIN pages :
        (LineStored(n) /\ ReachesTop(n)) =>
            /\ pages[n].family_line = AncestorsTopDown(n)
            /\ ~HasRevisit(pages[n].family_line)
            /\ pages[n].parent = NoPage => pages[n].family_line = <<>>
            /\ pages[n].parent # NoPage =>
                   pages[n].family_line[Len(pages[n].family_line)] = pages[n].parent

\* all family lines are stored, and one of them is a chain of three ancestors
C18_Witness ==
    /\ fl_status = "done"
    /\ \E n \in DOMAIN pages :
          /\ Len(pages[n].family_line) = 3
          /\ pages[n].family_line[3] = pages[n].parent
          /\ pages[pages[n].family_line[1]].parent = NoPage

-----------------------------------------------------------------------------
(* Claims about asset localisation.                                        *)

FetchesOf(p, u) == {k \in 1..Len(fetched) : fetched[k].page = p /\ fetched[k].file_url = u}

DownloadSucceeds(p, u) ==
    /\ FetchesOf(p, u) # {}
    /\ \A k \in FetchesOf(p, u) : fetched[k].outcome = "ok"

\* the body, a header asset and a property of page p all refer to u
ReferencedThrice(p, u) ==
    /\ pages0[p].md_content = MdContent(<<u>>)
    /\ pages0[p].cover = u \/ pages0[p].icon = u
    /\ pages0[p].properties_md = <<p_files(<<u>>)>>

\* C8: a url referenced from md_content, from the cover or icon, and from a
\* properties_md value, whose download succeeds, is replaced in all three places by
\* one and the same local path, and none of them still holds the url.
C8_SameLocalPathEverywhere ==
    dl_status = "done" =>
        \A p \in DOMAIN pages, u \in AssetUrls :
            (ReferencedThrice(p, u) /\ DownloadSucceeds(p, u)) =>
                LET local == IF pages0[p].cover = u THEN pages[p].cover ELSE pages[p].icon
                IN  /\ local # u
                    /\ pages0[p].icon = u => pages[p].icon = local
                    /\ pages[p].md_content = MdContent(<<local>>)
                    /\ pages[p].properties_md = <<p_files(<<local>>)>>
                    /\ ~Contains(pages[p].md_content, u)
                    /\ ~Contains(pages[p].properties_md[1], u)

\* C9: a fetch that fails, by an HTTP error or by a transport failure, does not
\* abort download_and_replace_paths, and that entry of files keeps the remote url.
C9_FetchFailureDoesNotAbort ==
    \A k \in 1..Len(fetched) :
        fetched[k].outcome # "ok" =>
            /\ dl_status \in {"running", "done"}
            /\ pages[fetched[k].page].files[fetched[k].i_file] = fetched[k].file_url

\* C10: once a url has been downloaded into a directory, localizing the same url
\* again in that directory performs no download.
C10_NoSecondDownload ==
    \A i, j \in 1..Len(fetched) :
        (/\ i < j
         /\ fetched[i].outcome = "ok"
         /\ fetched[j].file_url = fetched[i].file_url
         /\ PageFolder(pages[fetched[j].page]) = PageFolder(pages[fetched[i].page]))
            => FALSE

\* the files of page p have all been tried and none was fetched
AllFetchesFailed(p) ==
    /\ pages0[p].files # <<>>
    /\ \A i \in 1..Len(pages0[p].files) :
          \E k \in 1..Len(fetched) :
             fetched[k].page = p /\ fetched[k].i_file = i /\ fetched[k].outcome # "ok"

\* C15: in the model structurize_notion_content returns, the description of every
\* node is the first 150 characters of its final md_content with the tags stripped,
\* also for a node with no asset, for a node whose assets all failed to download,
\* and when download_files is false.
C15_DescriptionFromFinalContent ==
    dl_status \in {"done", "off"} =>
        \A p \in DOMAIN pages :
            pages[p].description = Upto(strip_html_tags(MdContentOf(pages[p])), DescriptionLen)

\* u1 is a proper prefix of u2
IsProperPrefix(u1, u2) == Len(u1) < Len(u2) /\ Upto(u2, Len(u1)) = u1

\* the local paths the entries of files that held u have got on page p
LocalPathsOf(p, u) ==
    {pages[p].files[i] : i \in {k \in 1..Len(pages0[p].files) : pages0[p].files[k] = u}}

\* C22: when the files of a node hold two urls u1 and u2, u1 a proper prefix of u2,
\* and both downloads succeed, every occurrence of u2 in md_content and in
\* properties_md is replaced by the local path assigned to u2, and never by a
\* string built from the local path assigned to u1.
C22_LongerUrlGetsItsOwnPath ==
    dl_status = "done" =>
        \A p \in DOMAIN pages, u1, u2 \in AssetUrls :
            (/\ IsProperPrefix(u1, u2)
             /\ u1 \in Range(pages0[p].files) /\ u2 \in Range(pages0[p].files)
             /\ DownloadSucceeds(p, u1) /\ DownloadSucceeds(p, u2))
                => /\ pages0[p].md_content = MdContent(<<u2>>) =>
                        \E l2 \in LocalPathsOf(p, u2) : pages[p].md_content = MdContent(<<l2>>)
                   /\ pages0[p].properties_md = <<p_files(<<u2>>)>> =>
                        \E l2 \in LocalPathsOf(p, u2) : pages[p].properties_md = <<p_files(<<l2>>)>>
                   /\ \A l1 \in LocalPathsOf(p, u1) :
                        /\ pages0[p].md_content = MdContent(<<u2>>) => ~Contains(pages[p].md_content, l1)
                        /\ pages0[p].properties_md = <<p_files(<<u2>>)>> =>
                                ~Contains(pages[p].properties_md[1], l1)

\* the fetches that succeeded: the assets that were localized
Localizations == {k \in 1..Len(fetched) : fetched[k].outcome = "ok"}

\* two localized assets with distinct source urls never have the same local path
DistinctUrlsDistinctPaths ==
    \A i, j \in Localizations :
        fetched[i].file_url # fetched[j].file_url => fetched[i].target # fetched[j].target

\* C23: no local path assigned to a downloaded asset is the url assigned to a node
\* of the model, and two localized assets with distinct source urls in one
\* directory never get the same local file path.
C23_AssetPathsCollideWithNothing ==
    /\ \A k \in Localizations, n \in DOMAIN pages : fetched[k].target # pages[n].url
    /\ DistinctUrlsDistinctPaths

-----------------------------------------------------------------------------
(* Claims about the sorting functions.                                      *)

\* the children list parse_headers built for page n
OriginalChildren(n) == SortedSeq({m \in DOMAIN pages : pages[m].parent = n})

IsPermutation(s, t) ==
    /\ Len(s) = Len(t)
    /\ \A x \in Range(s) \cup Range(t) :
          Cardinality({i \in 1..Len(s) : s[i] = x}) = Cardinality({i \in 1..Len(t) : t[i] = x})

\* the place of x in the list s
IndexOf(s, x) == CHOOSE i \in 1..Len(s) : s[i] = x

\* the children of n are the original ones, the dated ones first and in an order
\* in which none is Before an earlier one, the dateless ones after them and in
\* their original order
DatedFirst(n, Before(_, _)) ==
    LET kids == pages[n].children
        orig == OriginalChildren(n)
    IN  /\ IsPermutation(kids, orig)
        /\ \A i, j \in 1..Len(kids) :
              i < j =>
                 /\ Dated(pages[kids[j]]) => Dated(pages[kids[i]])
                 /\ (Dated(pages[kids[i]]) /\ Dated(pages[kids[j]]))
                        => ~Before(pages[kids[j]].date, pages[kids[i]].date)
                 /\ (~Dated(pages[kids[i]]) /\ ~Dated(pages[kids[j]]))
                        => IndexOf(orig, kids[i]) < IndexOf(orig, kids[j])

HasDatedChild(n) == \E m \in DOMAIN pages : pages[m].parent = n /\ Dated(pages[m])

SortedDbEntries(Before(_, _)) ==
    so_status \in {"by_year", "done", "TypeError"} =>
        \A n \in DOMAIN pages :
            IF pages[n].type = "database" /\ HasDatedChild(n)
            THEN DatedFirst(n, Before)
            ELSE pages[n].children = OriginalChildren(n)

\* d1 is an earlier instant than d2 (a date string without an offset read as UTC)
EarlierInstant(d1, d2) == DtLess(isoparse(d1), isoparse(d2))

\* C11 as stated: after sorting_db_entries the children of a Database with a dated
\* child are a permutation of the original list, the dated ones first in ascending
\* order of the instants their dates denote, the dateless ones after them in their
\* original order; the children of any other node are unchanged.
C11_ChildrenSortedByInstant == SortedDbEntries(EarlierInstant)

\* before, and in the same order again for dates that are the same string
BeforeAsString(n) ==
    \A i, j \in 1..Len(pages[n].children) :
        LET kids == pages[n].children
        IN  (i < j /\ Dated(pages[kids[i]]) /\ pages[kids[i]].date = pages[kids[j]].date)
                => IndexOf(OriginalChildren(n), kids[i]) < IndexOf(OriginalChildren(n), kids[j])

\* C11 amended: after sorting_db_entries the children of a Database with a dated
\* child are a permutation of the original list, the dated ones first in ascending
\* order of their date strings compared character by character (children with the
\* same date string in their original order), the dateless ones after them in their
\* original order; the children of any other node are unchanged.
C11_ChildrenSortedByDateString ==
    /\ SortedDbEntries(StrLess)
    /\ so_status \in {"by_year", "done", "TypeError"} =>
          \A n \in DOMAIN pages : pages[n].type = "database" => BeforeAsString(n)

\* a Database whose children were [dateless, 2023-06-01, 2022-12-31] has been sorted
C11_Witness ==
    /\ so_status = "by_year"
    /\ pages[1].type = "database"
    /\ pages[2].date = None
    /\ pages[3].date = IsoDate(2023, 6, 1)
    /\ pages[4].date = IsoDate(2022, 12, 31)
    /\ SubSeq(pages[1].children, 1, 2) = <<4, 3>>
    /\ pages[1].children[Len(pages[1].children)] = 2 \/ Dated(pages[pages[1].children[Len(pages[1].children)]])

\* the places (list, index) at which page n stands in sorted_id_by_year
PlacesOf(n) ==
    {<<k, i>> \in (1..Len(sorted_id_by_year)) \X (1..Len(pages)) :
        i <= Len(sorted_id_by_year[k].ids) /\ sorted_id_by_year[k].ids[i] = n}

\* C12: after sorting_page_by_year every node with a date stands in exactly one list
\* of sorted_id_by_year, the one keyed by the calendar year of its date; every list
\* has the most recent date first; the year keys are in descending order; a node
\* without a date stands in no list.
C12_GroupedByYear ==
    so_status \in {"done", "TypeError"} =>
        /\ \A n \in DOMAIN pages :
              IF Dated(pages[n])
              THEN /\ Cardinality(PlacesOf(n)) = 1
                   /\ \A pl \in PlacesOf(n) : sorted_id_by_year[pl[1]].year = isoparse(pages[n].date).year
              ELSE PlacesOf(n) = {}
        /\ \A k \in 1..Len(sorted_id_by_year) :
              LET ids == sorted_id_by_year[k].ids
              IN  \A i, j \in 1..Len(ids) :
                     i < j => ~EarlierInstant(pages[ids[i]].date, pages[ids[j]].date)
        /\ \A k, l \in 1..Len(sorted_id_by_year) :
              k < l => sorted_id_by_year[k].year > sorted_id_by_year[l].year

-----------------------------------------------------------------------------
(* Claims about parse_headers.                                              *)

\* the raw record has the keys parse_headers reads with page[...]
Complete(page) == page.object # Missing /\ page.parent.type # Missing

\* parse_headers has returned, or an exception has left it
HeadersEnded == ph_status \in {"parsed", "done", "KeyError"}

\* parse_headers has returned
HeadersParsed == ph_status \in {"parsed", "done"} \/ (ph_status = "KeyError" /\ ph_idx > Len(raw_notion))

CrawledIds == {raw_notion[i].id : i \in 1..Len(raw_notion)}

\* C13: a raw record that lacks "object" or "parent" fails only its own node: every
\* other record of the raw graph is classified and present in the result, and
\* parse_headers returns.
C13_MissingFieldFailsOnlyThatNode ==
    HeadersEnded =>
        /\ HeadersParsed
        /\ \A i \in 1..Len(raw_notion) :
              Complete(raw_notion[i]) =>
                 /\ raw_notion[i].id \in DOMAIN notion_pages
                 /\ HasKey(notion_pages[raw_notion[i].id], "type")

\* C14: whatever the order of the records, every node with a crawled parent p is
\* exactly once in the children list of p, and the record of p carries its own type,
\* title and parent.
C14_AnyOrderSameRelation ==
    HeadersParsed =>
        \A i \in 1..Len(raw_notion) :
            LET page_id == raw_notion[i].id
                p == HeaderParent(raw_notion[i])
            IN  p \in CrawledIds =>
                   /\ Cardinality({k \in 1..Len(notion_pages[p].children) :
                                      notion_pages[p].children[k] = page_id}) = 1
                   /\ HasKey(notion_pages[p], "type")
                   /\ HasKey(notion_pages[p], "title")
                   /\ HasKey(notion_pages[p], "parent")

\* C16: in the result of parse_headers the root (the record at the top of the tree,
\* id 1) has no parent, every other node has as parent the id of a node that carries
\* type and parent, and no record is a placeholder with only files and children.
C16_NoPlaceholderLeft ==
    HeadersParsed =>
        \A n \in DOMAIN notion_pages :
            /\ HasKey(notion_pages[n], "type")
            /\ HasKey(notion_pages[n], "parent")
            /\ n = 1 => notion_pages[n].parent = NoPage
            /\ n # 1 => /\ notion_pages[n].parent \in DOMAIN notion_pages
                        /\ HasKey(notion_pages[notion_pages[n].parent], "type")
                        /\ HasKey(notion_pages[notion_pages[n].parent], "parent")

-----------------------------------------------------------------------------
(* Claims about generate_pages.                                             *)

FailedCalls == {k \in 1..Len(gp_calls) : gp_calls[k].failed_at # "none"}

HtmlWrites == SelectSeq(gp_writes, LAMBDA w : w.kind = "html" /\ w.complete)

\* C21: generate_page writes the HTML of a page to output_dir joined with the url
\* assigned to the page, so the pages, whose urls are distinct, are written to
\* distinct files and no page's HTML takes the place of another page's.
C21_HtmlWrittenAtAssignedUrl ==
    /\ \A w \in 1..Len(HtmlWrites) :
          HtmlWrites[w].path = as_posix(Path(pages[HtmlWrites[w].page].url))
    /\ \A v, w \in 1..Len(HtmlWrites) :
          HtmlWrites[v].page # HtmlWrites[w].page => HtmlWrites[v].path # HtmlWrites[w].path


-----------------------------------------------------------------------------
(* Claims about parse_db_entry_properties.                                  *)

\* the database entries whose turn of the loop is over
PropertiesParsed(n) == pp_status # "idle" /\ n < pp_idx /\ pages[n].type = "db_entry"

clip_U_1 == <<"[", "clip", "]", "(">> \o U_1 \o <<")">>
clip_U_2 == <<"[", "clip", "]", "(">> \o U_2 \o <<")">>

\* the snippet each renderer of the model returns, written out
ExpectedSnippet(prop) ==
    CASE prop.type = "checkbox" ->
            IF prop.value THEN <<"-", " ", "[", "x", "]">> ELSE <<"-", " ", "[", " ", "]">>
      [] prop.type = "url" ->
            IF prop.value = None THEN <<>> ELSE <<"[", "web", "]", "(">> \o prop.value \o <<")">>
      [] prop.type = "files" ->
            IF Len(prop.value) = 0 THEN <<>>
            ELSE IF Len(prop.value) = 1 THEN clip_U_1
            ELSE clip_U_2 \o <<";", " ">> \o clip_U_1

\* the urls held by the file objects of a files property
UrlsOf(prop) == {prop.value[i].url : i \in 1..Len(prop.value)} \ {None}

\* C19: parse_db_entry_properties does not fail on a property of an unsupported kind;
\* for every database entry the title property has no entry in properties_md, a
\* property of an unsupported kind has an empty snippet, a property of a supported
\* kind has the snippet of its renderer, and every url of a files property has been
\* appended to the files of the node.
C19_PropertiesProjected ==
    /\ pp_status \in {"idle", "running", "done"}
    /\ \A n \in DOMAIN pages :
          PropertiesParsed(n) =>
             LET properties == raw_notion[n].properties
                 md == pages[n].properties_md
             IN  \A name \in DOMAIN properties :
                    /\ properties[name].type = "title" => name \notin DOMAIN md
                    /\ properties[name].type # "title" => name \in DOMAIN md
                    /\ properties[name].type \notin SupportedKinds \cup {"title"} => md[name] = <<>>
                    /\ properties[name].type \in SupportedKinds =>
                          md[name] = ExpectedSnippet(properties[name])
                    /\ properties[name].type = "files" =>
                          /\ UrlsOf(properties[name]) \subseteq Range(pages[n].files)
                          /\ Len(pages[n].files) = Cardinality({i \in 1..Len(properties[name].value) :
                                                                 properties[name].value[i].url # None})

\* an entry with two files, a ticked checkbox, a link and the unsupported columns
\* has been projected
C19_Witness ==
    /\ pp_status = "done"
    /\ PropertiesParsed(2)
    /\ pages[2].files = <<U_2, U_1>>
    /\ DOMAIN pages[2].properties_md = {"Files", "Done", "Link", "Status", "Calc"}
    /\ pages[2].properties_md["Done"] = <<"-", " ", "[", "x", "]">>
    /\ pages[2].properties_md["Link"] # <<>>
    /\ pages[2].properties_md["Status"] = <<>>
    /\ pages[2].properties_md["Calc"] = <<>>

-----------------------------------------------------------------------------
(* Claims about block_parser.                                               *)

IsPrefix(s, t) == Len(s) <= Len(t) /\ s = SubSeq(t, 1, Len(s))

\* C20: for a block whose children come in one or more result pages, block_parser
\* ends, and the children list holds the child blocks of all result pages, each once
\* and in order: while the loop runs the list is a part of them from the start, no
\* turn is made after the last result page was added, and at the end the list is
\* all of them.
C20_AllChildrenOnce ==
    block.has_children =>
        /\ bp_status \in {"loop", "children", "done"} => IsPrefix(block.children, Flatten(api_results))
        /\ bp_status \in {"children", "done"} => block.children = Flatten(api_results)
        /\ bp_turns <= Len(api_results)

=============================================================================
